---- MODULE Spec2Model ----
(***************************************************************************)
(* Model of raysect.core.workflow: the SerialEngine and the MulticoreEngine *)
(* render engines (serial.py, multicore.py).                                *)
(*                                                                          *)
(* One engine object is constructed, configured through its property        *)
(* setters and then asked to run a task list.  The multicore run is a       *)
(* pipeline of processes joined by two FIFO queues: the facade (the caller  *)
(* of run, which is also the result aggregator), one producer process that  *)
(* batches tasks into jobs, and `processes` worker processes.               *)
(***************************************************************************)
EXTENDS Integers, Sequences, FiniteSets, Bags, TLC

\* ---- bounds of the model ------------------------------------------------
MaxTasks == 3
MaxProcesses == 2
MaxTasksPerJob == 2

\* ---- values -------------------------------------------------------------
\* A Python argument: None, an integer, or a float given in halves
\* (FloatV(h) is the float h / 2).
NoneV == [kind |-> "None", val |-> 0]
IntV(n) == [kind |-> "int", val |-> n]
FloatV(h) == [kind |-> "float", val |-> h]

\* Arguments tried for processes: None, negative, zero and positive integers,
\* and the floats -0.5, 0.5 and 1.5.  For tasks_per_job: None and integers.
ProcessesArgs ==
    {NoneV} \cup {IntV(n) : n \in -1..MaxProcesses} \cup {FloatV(h) : h \in {-1, 1, 3}}
TasksPerJobArgs == {NoneV} \cup {IntV(n) : n \in -1..MaxTasksPerJob}

\* An attribute that has not been assigned (no engine object exists yet).
Unset == 0

\* multiprocessing.cpu_count(): the number of cores of the machine.
cpu_count == MaxProcesses

\* The caller's render callbacks tried: both are deterministic functions of the task.
RenderFns == {"identity", "square"}
render_call(f, task) == IF f = "identity" THEN task ELSE (task * task) % 3

\* A message on the job queue: a job (a list of tasks) or None, the shutdown command.
JobMsg(job) == [kind |-> "job", job |-> job]
NoneMsg == [kind |-> "None", job |-> << >>]

Workers == 1..MaxProcesses

VARIABLES
    engine,         \* class of the constructed engine: "none", "serial", "multicore"
    processes,      \* self._processes
    tasks_per_job,  \* self._tasks_per_job
    lastCall,       \* the last call made by the caller, its arguments, the values before it
    lastError,      \* the exception that call raised, or "none"
    render,         \* the render callback passed to run
    tasks,          \* the caller's task list passed to run
    pcF,            \* position of the caller's thread inside run
    workers,        \* number of worker processes started (len(workers))
    remaining,      \* run's countdown
    results,        \* the part of the received result batch not yet passed to update
    sent,           \* number of iterations done by the shutdown loop
    index,          \* SerialEngine.run: number of tasks the for loop has taken
    result,         \* SerialEngine.run: the result rendered and not yet passed to update
    job_queue,      \* SimpleQueue of jobs and None
    result_queue,   \* SimpleQueue of result batches
    pcP,            \* position of the producer process
    ptasks,         \* the producer process's task list
    job,            \* the job the producer is filling
    pcW,            \* position of each worker process
    wjob,           \* the tasks of a worker's job not yet rendered
    wresults,       \* the results a worker has collected for its job
    jobs,           \* history: all jobs put on the job queue, in order
    renderCount,    \* history: number of render calls per task
    updates,        \* history: the results passed to update, in order
    noneSent,       \* history: number of None put on the job queue
    noneRecv,       \* history: number of None received by each worker
    prev            \* the processes of the preceding run of the engine and their queues

cfgVars == <<engine, processes, tasks_per_job, lastCall, lastError>>
facadeVars == <<render, tasks, pcF, workers, remaining, results, sent, index, result>>
queueVars == <<job_queue, result_queue>>
producerVars == <<pcP, ptasks, job>>
workerVars == <<pcW, wjob, wresults>>
histVars == <<jobs, renderCount, updates, noneSent, noneRecv>>
vars == <<cfgVars, facadeVars, queueVars, producerVars, workerVars, histVars, prev>>

\* No preceding run: no processes, no queues.
NoPrev == [job_queue |-> << >>, result_queue |-> << >>,
           pcW |-> [w \in Workers |-> "none"], pcP |-> "none", ptasks |-> << >>]

Call(op, p, k) == [op |-> op, p |-> p, k |-> k,
                   before_p |-> processes, before_k |-> tasks_per_job]

Init ==
    /\ engine = "none"
    /\ processes = Unset
    /\ tasks_per_job = Unset
    /\ lastCall = [op |-> "none", p |-> NoneV, k |-> NoneV,
                   before_p |-> Unset, before_k |-> Unset]
    /\ lastError = "none"
    /\ render = "identity"
    /\ tasks = << >>
    /\ pcF = "idle"
    /\ workers = 0
    /\ remaining = 0
    /\ results = << >>
    /\ sent = 0
    /\ index = 0
    /\ result = << >>
    /\ job_queue = << >>
    /\ result_queue = << >>
    /\ pcP = "none"
    /\ ptasks = << >>
    /\ job = << >>
    /\ pcW = [w \in Workers |-> "none"]
    /\ wjob = [w \in Workers |-> << >>]
    /\ wresults = [w \in Workers |-> << >>]
    /\ jobs = << >>
    /\ renderCount = [t \in 1..MaxTasks |-> 0]
    /\ updates = << >>
    /\ noneSent = 0
    /\ noneRecv = [w \in Workers |-> 0]
    /\ prev = NoPrev

\* ---- configuration (multicore.py 73-100) ----------------------------------

\* int(value): an integer is itself, a float is truncated towards zero.
ToInt(value) ==
    IF value.kind = "float"
    THEN IF value.val >= 0 THEN value.val \div 2 ELSE -((-value.val) \div 2)
    ELSE value.val

\* Mutant: the test is `value < 0`, so 0 is accepted.
processes_setter_accepts_zero(cur, value) ==
    IF value.kind = "None"
    THEN [err |-> "none", val |-> cpu_count]
    ELSE IF ToInt(value) < 0
         THEN [err |-> "ValueError", val |-> cur]
         ELSE [err |-> "none", val |-> ToInt(value)]

\* The processes setter: the exception raised and the value stored afterwards.
processes_setter(cur, value) ==
    IF value.kind = "None"
    THEN [err |-> "none", val |-> cpu_count]
    ELSE IF ToInt(value) <= 0
         THEN [err |-> "ValueError", val |-> cur]
         ELSE [err |-> "none", val |-> ToInt(value)]

\* The tasks_per_job setter; None < 1 is a TypeError in Python 3.
tasks_per_job_setter(cur, value) ==
    IF value.kind = "None"
    THEN [err |-> "TypeError", val |-> cur]
    ELSE IF value.val < 1
         THEN [err |-> "ValueError", val |-> cur]
         ELSE [err |-> "none", val |-> value.val]

\* `tasks_per_job or 1`: None and 0 are falsy.
or_1(value) ==
    IF value.kind = "None" \/ value.val = 0 THEN IntV(1) ELSE value

\* MulticoreEngine(processes=p, tasks_per_job=k).  An exception in __init__
\* leaves the caller without an engine object.
MulticoreInit(p, k) ==
    /\ engine = "none"
    /\ pcF = "idle"
    /\ lastCall' = Call("init", p, k)
    /\ LET rp == processes_setter(Unset, p)
           rk == tasks_per_job_setter(Unset, or_1(k))
       IN  IF rp.err # "none"
           THEN /\ lastError' = rp.err
                /\ UNCHANGED <<engine, processes, tasks_per_job>>
           ELSE IF rk.err # "none"
           THEN /\ lastError' = rk.err
                /\ UNCHANGED <<engine, processes, tasks_per_job>>
           ELSE /\ lastError' = "none"
                /\ engine' = "multicore"
                /\ processes' = rp.val
                /\ tasks_per_job' = rk.val
    /\ UNCHANGED <<facadeVars, queueVars, producerVars, workerVars, histVars>>
    /\ UNCHANGED prev

\* SerialEngine(): no configuration.
SerialInit ==
    /\ engine = "none"
    /\ pcF = "idle"
    /\ lastCall' = Call("init_serial", NoneV, NoneV)
    /\ lastError' = "none"
    /\ engine' = "serial"
    /\ UNCHANGED <<processes, tasks_per_job>>
    /\ UNCHANGED <<facadeVars, queueVars, producerVars, workerVars, histVars>>
    /\ UNCHANGED prev

\* engine.processes = value
SetProcesses(value) ==
    /\ engine = "multicore"
    /\ pcF = "idle"
    /\ lastCall' = Call("set_processes", value, NoneV)
    /\ LET r == processes_setter(processes, value)
       IN  /\ lastError' = r.err
           /\ processes' = r.val
    /\ UNCHANGED <<engine, tasks_per_job>>
    /\ UNCHANGED <<facadeVars, queueVars, producerVars, workerVars, histVars>>
    /\ UNCHANGED prev

\* engine.tasks_per_job = value
SetTasksPerJob(value) ==
    /\ engine = "multicore"
    /\ pcF = "idle"
    /\ lastCall' = Call("set_tasks_per_job", NoneV, value)
    /\ LET r == tasks_per_job_setter(tasks_per_job, value)
       IN  /\ lastError' = r.err
           /\ tasks_per_job' = r.val
    /\ UNCHANGED <<engine, processes>>
    /\ UNCHANGED <<facadeVars, queueVars, producerVars, workerVars, histVars>>
    /\ UNCHANGED prev

\* Mutant: worker_count reports the machine's cores, not the configured value.
worker_count_cores ==
    IF engine = "serial" THEN 1 ELSE cpu_count

\* worker_count() of the constructed engine.
worker_count ==
    IF engine = "serial" THEN 1 ELSE processes

\* ---- MulticoreEngine.run (multicore.py 102-129) ---------------------------

TaskList(n) == [i \in 1..n |-> i]

\* The call of run up to producer.start(): two fresh queues, and a producer
\* process that works on its own copy of the task list.
Run(n, f) ==
    /\ engine = "multicore"
    /\ pcF = "idle"
    /\ lastCall' = Call("run", NoneV, NoneV)
    /\ lastError' = "none"
    /\ render' = f
    /\ tasks' = TaskList(n)
    /\ job_queue' = << >>
    /\ result_queue' = << >>
    /\ pcP' = "while"
    /\ ptasks' = TaskList(n)
    /\ pcF' = "start_workers"
    /\ UNCHANGED <<engine, processes, tasks_per_job>>
    /\ UNCHANGED <<workers, remaining, results, sent, index, result, job>>
    /\ UNCHANGED <<workerVars, histVars>>
    /\ UNCHANGED prev

\* One iteration of `for pid in range(self._processes)`: start a worker.
StartWorker ==
    /\ pcF = "start_workers"
    /\ workers < processes
    /\ workers' = workers + 1
    /\ pcW' = [pcW EXCEPT ![workers + 1] = "get"]
    /\ UNCHANGED <<cfgVars, render, tasks, pcF, remaining, results, sent, index, result>>
    /\ UNCHANGED <<queueVars, producerVars, wjob, wresults, histVars>>
    /\ UNCHANGED prev

\* Mutant: the producer pops from the caller's own list (a thread, not a
\* process), so len(tasks) counts only what the producer has not yet taken.
CountTasks_shared_list ==
    /\ pcF = "start_workers"
    /\ workers >= processes
    /\ remaining' = Len(ptasks)
    /\ pcF' = "while"
    /\ UNCHANGED <<cfgVars, render, tasks, workers, results, sent, index, result>>
    /\ UNCHANGED <<queueVars, producerVars, workerVars, histVars>>
    /\ UNCHANGED prev

\* remaining = len(tasks), after the last worker was started.
CountTasks ==
    /\ pcF = "start_workers"
    /\ workers >= processes
    /\ remaining' = Len(tasks)
    /\ pcF' = "while"
    /\ UNCHANGED <<cfgVars, render, tasks, workers, results, sent, index, result>>
    /\ UNCHANGED <<queueVars, producerVars, workerVars, histVars>>
    /\ UNCHANGED prev

\* Mutant: `while remaining >= 0:` asks for one more batch at zero.
WhileRemaining_ge_zero ==
    /\ pcF = "while"
    /\ pcF' = IF remaining >= 0 THEN "get" ELSE "shutdown"
    /\ UNCHANGED <<cfgVars, render, tasks, workers, remaining, results, sent, index, result>>
    /\ UNCHANGED <<queueVars, producerVars, workerVars, histVars>>
    /\ UNCHANGED prev

\* `while remaining:` a nonzero countdown enters the loop body.
WhileRemaining ==
    /\ pcF = "while"
    /\ pcF' = IF remaining # 0 THEN "get" ELSE "shutdown"
    /\ UNCHANGED <<cfgVars, render, tasks, workers, remaining, results, sent, index, result>>
    /\ UNCHANGED <<queueVars, producerVars, workerVars, histVars>>
    /\ UNCHANGED prev

\* Mutant: a get that gives up on an empty queue and goes on to the shutdown.
ResultGet_gives_up ==
    \/ /\ pcF = "get"
       /\ result_queue # << >>
       /\ results' = Head(result_queue)
       /\ result_queue' = Tail(result_queue)
       /\ pcF' = IF Head(result_queue) = << >> THEN "while" ELSE "update"
       /\ UNCHANGED <<cfgVars, render, tasks, workers, remaining, sent, index, result>>
       /\ UNCHANGED <<job_queue, producerVars, workerVars, histVars>>
       /\ UNCHANGED prev
    \/ /\ pcF = "get"
       /\ result_queue = << >>
       /\ pcF' = "shutdown"
       /\ UNCHANGED <<cfgVars, render, tasks, workers, remaining, results, sent, index, result>>
       /\ UNCHANGED <<queueVars, producerVars, workerVars, histVars>>
       /\ UNCHANGED prev

\* results = result_queue.get(): blocks while the queue is empty.
ResultGet ==
    /\ pcF = "get"
    /\ result_queue # << >>
    /\ results' = Head(result_queue)
    /\ result_queue' = Tail(result_queue)
    /\ pcF' = IF Head(result_queue) = << >> THEN "while" ELSE "update"
    /\ UNCHANGED <<cfgVars, render, tasks, workers, remaining, sent, index, result>>
    /\ UNCHANGED <<job_queue, producerVars, workerVars, histVars>>
    /\ UNCHANGED prev

\* Mutant: `remaining -= 1` is outside the for loop: one decrement per batch.
Update_counts_batches ==
    /\ pcF = "update"
    /\ results # << >>
    /\ updates' = Append(updates, Head(results))
    /\ remaining' = IF Tail(results) = << >> THEN remaining - 1 ELSE remaining
    /\ results' = Tail(results)
    /\ pcF' = IF Tail(results) = << >> THEN "while" ELSE "update"
    /\ UNCHANGED <<cfgVars, render, tasks, workers, sent, index, result>>
    /\ UNCHANGED <<queueVars, producerVars, workerVars>>
    /\ UNCHANGED <<jobs, renderCount, noneSent, noneRecv>>
    /\ UNCHANGED prev

\* Mutant: the batch is consumed from its end (update(results.pop())).
Update_from_end ==
    /\ pcF = "update"
    /\ results # << >>
    /\ updates' = Append(updates, results[Len(results)])
    /\ remaining' = remaining - 1
    /\ results' = SubSeq(results, 1, Len(results) - 1)
    /\ pcF' = IF Len(results) = 1 THEN "while" ELSE "update"
    /\ UNCHANGED <<cfgVars, render, tasks, workers, sent, index, result>>
    /\ UNCHANGED <<queueVars, producerVars, workerVars>>
    /\ UNCHANGED <<jobs, renderCount, noneSent, noneRecv>>
    /\ UNCHANGED prev

\* One iteration of `for result in results`: update(result); remaining -= 1.
Update ==
    /\ pcF = "update"
    /\ results # << >>
    /\ updates' = Append(updates, Head(results))
    /\ remaining' = remaining - 1
    /\ results' = Tail(results)
    /\ pcF' = IF Tail(results) = << >> THEN "while" ELSE "update"
    /\ UNCHANGED <<cfgVars, render, tasks, workers, sent, index, result>>
    /\ UNCHANGED <<queueVars, producerVars, workerVars>>
    /\ UNCHANGED <<jobs, renderCount, noneSent, noneRecv>>
    /\ UNCHANGED prev

\* Mutant: the shutdown loop runs once more than there are workers.
ShutdownPut_one_more ==
    /\ pcF = "shutdown"
    /\ sent <= workers
    /\ job_queue' = Append(job_queue, NoneMsg)
    /\ sent' = sent + 1
    /\ noneSent' = noneSent + 1
    /\ UNCHANGED <<cfgVars, render, tasks, pcF, workers, remaining, results, index, result>>
    /\ UNCHANGED <<result_queue, producerVars, workerVars>>
    /\ UNCHANGED <<jobs, renderCount, updates, noneRecv>>
    /\ UNCHANGED prev

\* Mutant: a single None is put for all workers.
ShutdownPut_once ==
    /\ pcF = "shutdown"
    /\ sent < workers
    /\ job_queue' = Append(job_queue, NoneMsg)
    /\ sent' = workers
    /\ noneSent' = noneSent + 1
    /\ UNCHANGED <<cfgVars, render, tasks, pcF, workers, remaining, results, index, result>>
    /\ UNCHANGED <<result_queue, producerVars, workerVars>>
    /\ UNCHANGED <<jobs, renderCount, updates, noneRecv>>
    /\ UNCHANGED prev

\* One iteration of `for _ in workers`: job_queue.put(None).
ShutdownPut ==
    /\ pcF = "shutdown"
    /\ sent < workers
    /\ job_queue' = Append(job_queue, NoneMsg)
    /\ sent' = sent + 1
    /\ noneSent' = noneSent + 1
    /\ UNCHANGED <<cfgVars, render, tasks, pcF, workers, remaining, results, index, result>>
    /\ UNCHANGED <<result_queue, producerVars, workerVars>>
    /\ UNCHANGED <<jobs, renderCount, updates, noneRecv>>
    /\ UNCHANGED prev

\* run returns when the shutdown loop is over.
Return ==
    /\ pcF = "shutdown"
    /\ sent >= workers
    /\ pcF' = "done"
    /\ UNCHANGED <<cfgVars, render, tasks, workers, remaining, results, sent, index, result>>
    /\ UNCHANGED <<queueVars, producerVars, workerVars, histVars>>
    /\ UNCHANGED prev

\* ---- MulticoreEngine._producer (multicore.py 134-144) ---------------------

\* `while tasks:` then `job = []`.
ProducerWhile ==
    /\ pcP = "while"
    /\ IF ptasks # << >>
       THEN /\ job' = << >>
            /\ pcP' = "for"
       ELSE /\ pcP' = "done"
            /\ UNCHANGED job
    /\ UNCHANGED ptasks
    /\ UNCHANGED <<cfgVars, facadeVars, queueVars, workerVars, histVars>>
    /\ UNCHANGED prev

\* Mutant: tasks.pop(0) takes the task from the front of the list.
ProducerPop_front ==
    /\ pcP = "for"
    /\ Len(job) < tasks_per_job
    /\ ptasks # << >>
    /\ job' = Append(job, ptasks[1])
    /\ ptasks' = Tail(ptasks)
    /\ UNCHANGED pcP
    /\ UNCHANGED <<cfgVars, facadeVars, queueVars, workerVars, histVars>>
    /\ UNCHANGED prev

\* Mutant: the producer runs in the caller's process (a thread), so its pop
\* takes the task from the caller's list as well.
ProducerPop_callers_list ==
    /\ pcP = "for"
    /\ Len(job) < tasks_per_job
    /\ ptasks # << >>
    /\ job' = Append(job, ptasks[Len(ptasks)])
    /\ ptasks' = SubSeq(ptasks, 1, Len(ptasks) - 1)
    /\ tasks' = SubSeq(ptasks, 1, Len(ptasks) - 1)
    /\ UNCHANGED pcP
    /\ UNCHANGED <<render, pcF, workers, remaining, results, sent, index, result>>
    /\ UNCHANGED <<cfgVars, queueVars, workerVars, histVars>>
    /\ UNCHANGED prev

\* One iteration of `for _ in range(self._tasks_per_job)` that finds a task:
\* job.append(tasks.pop()).  Every such iteration appends one task, so the
\* number of iterations done is len(job).
ProducerPop ==
    /\ pcP = "for"
    /\ Len(job) < tasks_per_job
    /\ ptasks # << >>
    /\ job' = Append(job, ptasks[Len(ptasks)])
    /\ ptasks' = SubSeq(ptasks, 1, Len(ptasks) - 1)
    /\ UNCHANGED pcP
    /\ UNCHANGED <<cfgVars, facadeVars, queueVars, workerVars, histVars>>
    /\ UNCHANGED prev

\* Mutant: the job is put as soon as it holds one task (range(1)).
ProducerPut_single ==
    /\ pcP = "for"
    /\ (Len(job) >= 1 \/ ptasks = << >>)
    /\ job_queue' = Append(job_queue, JobMsg(job))
    /\ jobs' = Append(jobs, job)
    /\ pcP' = "while"
    /\ UNCHANGED <<ptasks, job, result_queue>>
    /\ UNCHANGED <<cfgVars, facadeVars, workerVars>>
    /\ UNCHANGED <<renderCount, updates, noneSent, noneRecv>>
    /\ UNCHANGED prev

\* The for loop ends (range exhausted, or break on an empty list):
\* job_queue.put(job).
ProducerPut ==
    /\ pcP = "for"
    /\ (Len(job) >= tasks_per_job \/ ptasks = << >>)
    /\ job_queue' = Append(job_queue, JobMsg(job))
    /\ jobs' = Append(jobs, job)
    /\ pcP' = "while"
    /\ UNCHANGED <<ptasks, job, result_queue>>
    /\ UNCHANGED <<cfgVars, facadeVars, workerVars>>
    /\ UNCHANGED <<renderCount, updates, noneSent, noneRecv>>
    /\ UNCHANGED prev

\* ---- MulticoreEngine._worker (multicore.py 146-163) -----------------------

\* Mutant: a get that does not block: on an empty queue the worker leaves
\* its loop.
WorkerGet_exits_on_empty(w) ==
    \/ /\ pcW[w] = "get"
       /\ job_queue # << >>
       /\ job_queue' = Tail(job_queue)
       /\ IF Head(job_queue).kind = "None"
          THEN /\ pcW' = [pcW EXCEPT ![w] = "done"]
               /\ noneRecv' = [noneRecv EXCEPT ![w] = @ + 1]
               /\ UNCHANGED <<wjob, wresults>>
          ELSE /\ pcW' = [pcW EXCEPT ![w] = "render"]
               /\ wjob' = [wjob EXCEPT ![w] = Head(job_queue).job]
               /\ wresults' = [wresults EXCEPT ![w] = << >>]
               /\ UNCHANGED noneRecv
       /\ UNCHANGED <<cfgVars, facadeVars, result_queue, producerVars>>
       /\ UNCHANGED <<jobs, renderCount, updates, noneSent>>
       /\ UNCHANGED prev
    \/ /\ pcW[w] = "get"
       /\ job_queue = << >>
       /\ pcW' = [pcW EXCEPT ![w] = "done"]
       /\ UNCHANGED <<wjob, wresults>>
       /\ UNCHANGED <<cfgVars, facadeVars, queueVars, producerVars, histVars>>
       /\ UNCHANGED prev

\* Mutant: get reads the head of the queue without removing it.
WorkerGet_peek(w) ==
    /\ pcW[w] = "get"
    /\ job_queue # << >>
    /\ UNCHANGED job_queue
    /\ IF Head(job_queue).kind = "None"
       THEN /\ pcW' = [pcW EXCEPT ![w] = "done"]
            /\ noneRecv' = [noneRecv EXCEPT ![w] = @ + 1]
            /\ UNCHANGED <<wjob, wresults>>
       ELSE /\ pcW' = [pcW EXCEPT ![w] = "render"]
            /\ wjob' = [wjob EXCEPT ![w] = Head(job_queue).job]
            /\ wresults' = [wresults EXCEPT ![w] = << >>]
            /\ UNCHANGED noneRecv
    /\ UNCHANGED <<cfgVars, facadeVars, result_queue, producerVars>>
    /\ UNCHANGED <<jobs, renderCount, updates, noneSent>>
    /\ UNCHANGED prev

\* job = job_queue.get(): blocks while the queue is empty; None ends the worker.
WorkerGet(w) ==
    /\ pcW[w] = "get"
    /\ job_queue # << >>
    /\ job_queue' = Tail(job_queue)
    /\ IF Head(job_queue).kind = "None"
       THEN /\ pcW' = [pcW EXCEPT ![w] = "done"]
            /\ noneRecv' = [noneRecv EXCEPT ![w] = @ + 1]
            /\ UNCHANGED <<wjob, wresults>>
       ELSE /\ pcW' = [pcW EXCEPT ![w] = "render"]
            /\ wjob' = [wjob EXCEPT ![w] = Head(job_queue).job]
            /\ wresults' = [wresults EXCEPT ![w] = << >>]
            /\ UNCHANGED noneRecv
    /\ UNCHANGED <<cfgVars, facadeVars, result_queue, producerVars>>
    /\ UNCHANGED <<jobs, renderCount, updates, noneSent>>
    /\ UNCHANGED prev

\* Mutant: every iteration renders the last task of the job (render(job[-1])).
WorkerRender_last(w) ==
    /\ pcW[w] = "render"
    /\ wjob[w] # << >>
    /\ wresults' = [wresults EXCEPT ![w] =
                       Append(@, render_call(render, wjob[w][Len(wjob[w])]))]
    /\ renderCount' = [renderCount EXCEPT ![wjob[w][Len(wjob[w])]] = @ + 1]
    /\ wjob' = [wjob EXCEPT ![w] = Tail(@)]
    /\ UNCHANGED pcW
    /\ UNCHANGED <<cfgVars, facadeVars, queueVars, producerVars>>
    /\ UNCHANGED <<jobs, updates, noneSent, noneRecv>>
    /\ UNCHANGED prev

\* Mutant: the put is inside the for loop, so the list collected so far is
\* put after every task.
WorkerRender_puts_each(w) ==
    /\ pcW[w] = "render"
    /\ wjob[w] # << >>
    /\ wresults' = [wresults EXCEPT ![w] = Append(@, render_call(render, Head(wjob[w])))]
    /\ renderCount' = [renderCount EXCEPT ![Head(wjob[w])] = @ + 1]
    /\ result_queue' = Append(result_queue,
                              Append(wresults[w], render_call(render, Head(wjob[w]))))
    /\ wjob' = [wjob EXCEPT ![w] = Tail(@)]
    /\ UNCHANGED <<pcW, job_queue>>
    /\ UNCHANGED <<cfgVars, facadeVars, producerVars>>
    /\ UNCHANGED <<jobs, updates, noneSent, noneRecv>>
    /\ UNCHANGED prev

\* Mutant: the worker passes each result to update itself.
WorkerRender_updates(w) ==
    /\ pcW[w] = "render"
    /\ wjob[w] # << >>
    /\ wresults' = [wresults EXCEPT ![w] = Append(@, render_call(render, Head(wjob[w])))]
    /\ renderCount' = [renderCount EXCEPT ![Head(wjob[w])] = @ + 1]
    /\ updates' = Append(updates, render_call(render, Head(wjob[w])))
    /\ wjob' = [wjob EXCEPT ![w] = Tail(@)]
    /\ UNCHANGED pcW
    /\ UNCHANGED <<cfgVars, facadeVars, queueVars, producerVars>>
    /\ UNCHANGED <<jobs, noneSent, noneRecv>>
    /\ UNCHANGED prev

\* One iteration of `for task in job`: results.append(render(task)).
WorkerRender(w) ==
    /\ pcW[w] = "render"
    /\ wjob[w] # << >>
    /\ wresults' = [wresults EXCEPT ![w] = Append(@, render_call(render, Head(wjob[w])))]
    /\ renderCount' = [renderCount EXCEPT ![Head(wjob[w])] = @ + 1]
    /\ wjob' = [wjob EXCEPT ![w] = Tail(@)]
    /\ UNCHANGED pcW
    /\ UNCHANGED <<cfgVars, facadeVars, queueVars, producerVars>>
    /\ UNCHANGED <<jobs, updates, noneSent, noneRecv>>
    /\ UNCHANGED prev

\* result_queue.put(results), then back to the top of `while True`.
WorkerPut(w) ==
    /\ pcW[w] = "render"
    /\ wjob[w] = << >>
    /\ result_queue' = Append(result_queue, wresults[w])
    /\ pcW' = [pcW EXCEPT ![w] = "get"]
    /\ UNCHANGED <<wjob, wresults, job_queue>>
    /\ UNCHANGED <<cfgVars, facadeVars, producerVars, histVars>>
    /\ UNCHANGED prev

\* A fault in a worker between receiving a job and putting its results: an
\* exception raised by render (or by the put) leaves _worker and ends the
\* process; nothing is put on the result queue.
WorkerFault(w) ==
    /\ pcW[w] = "render"
    /\ pcW' = [pcW EXCEPT ![w] = "crashed"]
    /\ UNCHANGED <<wjob, wresults>>
    /\ UNCHANGED <<cfgVars, facadeVars, queueVars, producerVars, histVars>>
    /\ UNCHANGED prev

\* ---- SerialEngine.run (serial.py 46-50) -----------------------------------

SerialRun(n, f) ==
    /\ engine = "serial"
    /\ pcF = "idle"
    /\ lastCall' = Call("run", NoneV, NoneV)
    /\ lastError' = "none"
    /\ render' = f
    /\ tasks' = TaskList(n)
    /\ index' = 0
    /\ pcF' = "for"
    /\ UNCHANGED <<engine, processes, tasks_per_job>>
    /\ UNCHANGED <<workers, remaining, results, sent, result>>
    /\ UNCHANGED <<queueVars, producerVars, workerVars, histVars>>
    /\ UNCHANGED prev

\* Mutant: the loop walks the task list from its end (reversed(tasks)).
SerialRender_reversed ==
    /\ pcF = "for"
    /\ IF index < Len(tasks)
       THEN /\ index' = index + 1
            /\ result' = << render_call(render, tasks[Len(tasks) - index]) >>
            /\ renderCount' = [renderCount EXCEPT ![tasks[Len(tasks) - index]] = @ + 1]
            /\ pcF' = "serial_update"
       ELSE /\ pcF' = "done"
            /\ UNCHANGED <<index, result, renderCount>>
    /\ UNCHANGED <<cfgVars, render, tasks, workers, remaining, results, sent>>
    /\ UNCHANGED <<queueVars, producerVars, workerVars>>
    /\ UNCHANGED <<jobs, updates, noneSent, noneRecv>>
    /\ UNCHANGED prev

\* `for task in tasks`: result = render(task), or the end of the loop and return.
SerialRender ==
    /\ pcF = "for"
    /\ IF index < Len(tasks)
       THEN /\ index' = index + 1
            /\ result' = << render_call(render, tasks[index + 1]) >>
            /\ renderCount' = [renderCount EXCEPT ![tasks[index + 1]] = @ + 1]
            /\ pcF' = "serial_update"
       ELSE /\ pcF' = "done"
            /\ UNCHANGED <<index, result, renderCount>>
    /\ UNCHANGED <<cfgVars, render, tasks, workers, remaining, results, sent>>
    /\ UNCHANGED <<queueVars, producerVars, workerVars>>
    /\ UNCHANGED <<jobs, updates, noneSent, noneRecv>>
    /\ UNCHANGED prev

\* update(result)
SerialUpdate ==
    /\ pcF = "serial_update"
    /\ updates' = Append(updates, result[1])
    /\ result' = << >>
    /\ pcF' = "for"
    /\ UNCHANGED <<cfgVars, render, tasks, workers, remaining, results, sent, index>>
    /\ UNCHANGED <<queueVars, producerVars, workerVars>>
    /\ UNCHANGED <<jobs, renderCount, noneSent, noneRecv>>
    /\ UNCHANGED prev

\* ---- a further run of the same engine (multicore.py 102-129) ---------------

\* The processes of the preceding run have all terminated (or there was none).
PrevGone ==
    /\ \A w \in Workers : prev.pcW[w] \in {"none", "done"}
    /\ prev.pcP \in {"none", "done"}

\* Mutant: the queues are made once for the engine and used by every run, so
\* what the last run left on the job queue is there for the new workers.
Rerun_same_queues(n, f) ==
    /\ engine = "multicore"
    /\ pcF = "done"
    /\ PrevGone
    /\ prev' = [job_queue |-> << >>, result_queue |-> << >>,
                pcW |-> pcW, pcP |-> pcP, ptasks |-> ptasks]
    /\ lastCall' = Call("run", NoneV, NoneV)
    /\ lastError' = "none"
    /\ render' = f
    /\ tasks' = TaskList(n)
    /\ UNCHANGED <<job_queue, result_queue>>
    /\ pcP' = "while"
    /\ ptasks' = TaskList(n)
    /\ job' = << >>
    /\ pcF' = "start_workers"
    /\ workers' = 0
    /\ remaining' = 0
    /\ results' = << >>
    /\ sent' = 0
    /\ pcW' = [w \in Workers |-> "none"]
    /\ wjob' = [w \in Workers |-> << >>]
    /\ wresults' = [w \in Workers |-> << >>]
    /\ jobs' = << >>
    /\ renderCount' = [t \in 1..MaxTasks |-> 0]
    /\ updates' = << >>
    /\ noneSent' = 0
    /\ noneRecv' = [w \in Workers |-> 0]
    /\ UNCHANGED <<engine, processes, tasks_per_job, index, result>>

\* run is called again on an engine whose last run has returned.  run does
\* not join its processes, so the workers (and the producer) of the last run
\* may still be alive: they keep the queues they were started with, and the
\* new call makes two fresh queues, a new producer, new locals.  The history
\* starts again for the new run.  A call is taken only when the processes of
\* the run before the last have all terminated.
Rerun(n, f) ==
    /\ engine = "multicore"
    /\ pcF = "done"
    /\ PrevGone
    /\ prev' = [job_queue |-> job_queue, result_queue |-> result_queue,
                pcW |-> pcW, pcP |-> pcP, ptasks |-> ptasks]
    /\ lastCall' = Call("run", NoneV, NoneV)
    /\ lastError' = "none"
    /\ render' = f
    /\ tasks' = TaskList(n)
    /\ job_queue' = << >>
    /\ result_queue' = << >>
    /\ pcP' = "while"
    /\ ptasks' = TaskList(n)
    /\ job' = << >>
    /\ pcF' = "start_workers"
    /\ workers' = 0
    /\ remaining' = 0
    /\ results' = << >>
    /\ sent' = 0
    /\ pcW' = [w \in Workers |-> "none"]
    /\ wjob' = [w \in Workers |-> << >>]
    /\ wresults' = [w \in Workers |-> << >>]
    /\ jobs' = << >>
    /\ renderCount' = [t \in 1..MaxTasks |-> 0]
    /\ updates' = << >>
    /\ noneSent' = 0
    /\ noneRecv' = [w \in Workers |-> 0]
    /\ UNCHANGED <<engine, processes, tasks_per_job, index, result>>

\* A worker of the preceding run at job = job_queue.get() on the queue it was
\* started with: None ends it, a job would be rendered.
PrevWorkerGet(w) ==
    /\ prev.pcW[w] = "get"
    /\ prev.job_queue # << >>
    /\ prev' = [prev EXCEPT
                  !.job_queue = Tail(@),
                  !.pcW[w] = IF Head(prev.job_queue).kind = "None"
                             THEN "done" ELSE "render"]
    /\ UNCHANGED <<cfgVars, facadeVars, queueVars, producerVars, workerVars, histVars>>

\* The producer of the preceding run at `while tasks:` on its own list.
PrevProducerWhile ==
    /\ prev.pcP = "while"
    /\ prev' = [prev EXCEPT !.pcP = IF prev.ptasks # << >> THEN "for" ELSE "done"]
    /\ UNCHANGED <<cfgVars, facadeVars, queueVars, producerVars, workerVars, histVars>>

\* ---- next-state relation --------------------------------------------------

Facade ==
    \/ StartWorker
    \/ CountTasks
    \/ WhileRemaining
    \/ ResultGet
    \/ Update
    \/ ShutdownPut
    \/ Return

Producer ==
    \/ ProducerWhile
    \/ ProducerPop
    \/ ProducerPut

Worker(w) ==
    \/ WorkerGet(w)
    \/ WorkerRender(w)
    \/ WorkerPut(w)

Serial ==
    \/ SerialRender
    \/ SerialUpdate

Next ==
    \/ \E p \in ProcessesArgs, k \in TasksPerJobArgs : MulticoreInit(p, k)
    \/ SerialInit
    \/ \E v \in ProcessesArgs : SetProcesses(v)
    \/ \E v \in TasksPerJobArgs : SetTasksPerJob(v)
    \/ \E n \in 0..MaxTasks, f \in RenderFns : Run(n, f)
    \/ \E n \in 0..MaxTasks, f \in RenderFns : SerialRun(n, f)
    \/ Facade
    \/ Producer
    \/ \E w \in Workers : Worker(w)
    \/ Serial

Spec == Init /\ [][Next]_vars

\* A step of one of the processes of a parallel run.
RunStep ==
    \/ Facade
    \/ Producer
    \/ \E w \in Workers : Worker(w)

\* The engines with workers that may fault.
FaultNext ==
    \/ Next
    \/ \E w \in Workers : WorkerFault(w)

FaultSpec == Init /\ [][FaultNext]_vars

\* The engines with runs that follow one another on the same engine.
RerunNext ==
    \/ Next
    \/ \E n \in 0..MaxTasks, f \in RenderFns : Rerun(n, f)
    \/ \E w \in Workers : PrevWorkerGet(w)
    \/ PrevProducerWhile

RerunSpec == Init /\ [][RerunNext]_vars

\* The operating system schedules every process that can take a step: the
\* caller's thread inside run, the producer and each worker.
FairSpec ==
    /\ Spec
    /\ WF_vars(Facade)
    /\ WF_vars(Producer)
    /\ \A w \in Workers : WF_vars(Worker(w))
    /\ WF_vars(Serial)

\* ---- properties ------------------------------------------------------------

\* The bag (multiset) of the elements of a sequence.
SeqToBag(s) ==
    [x \in {s[i] : i \in DOMAIN s} |-> Cardinality({i \in DOMAIN s : s[i] = x})]

\* The bag of the results produced so far by render calls.
Produced ==
    LET vals == {render_call(render, t) : t \in {u \in 1..MaxTasks : renderCount[u] > 0}}
        sum[S \in SUBSET (1..MaxTasks)] ==
            IF S = {} THEN 0
            ELSE LET t == CHOOSE u \in S : TRUE IN renderCount[t] + sum[S \ {t}]
    IN  [v \in vals |-> sum[{t \in 1..MaxTasks : render_call(render, t) = v}]]

\* The positions <<j, i>> of the job history that hold task t.
PlacesOf(t) ==
    {<<j, i>> \in (1..Len(jobs)) \X (1..MaxTasks) : i <= Len(jobs[j]) /\ jobs[j][i] = t}

\* The results SerialEngine.run passes to update for a task list, in order
\* (serial.py 48-50).
serial_updates(ts, f) ==
    [i \in 1..Len(ts) |-> render_call(f, ts[i])]

MulticoreRunning == engine = "multicore" /\ pcF \notin {"idle", "done"}
MulticoreReturned == engine = "multicore" /\ pcF = "done"
SerialReturned == engine = "serial" /\ pcF = "done"

\* C1: in the parallel strategy no task is ever rendered twice or placed in
\* two jobs, and when run returns every task has been placed in exactly one
\* job and rendered exactly once, and update has been called exactly once on
\* each produced result (the results passed to update are, as a multiset, the
\* results produced, one per task).
C1_ExactlyOnce ==
    engine = "multicore" =>
        /\ \A t \in 1..MaxTasks : renderCount[t] <= 1 /\ Cardinality(PlacesOf(t)) <= 1
        /\ pcF = "done" =>
              /\ \A t \in 1..Len(tasks) :
                    renderCount[t] = 1 /\ Cardinality(PlacesOf(t)) = 1
              /\ Len(updates) = Len(tasks)
              /\ SeqToBag(updates) = Produced

\* C1 witness: a returned run of 3 tasks in jobs of 2 on 2 workers whose
\* results arrived in an order that is neither submission nor pop order.
C1_Witness ==
    /\ MulticoreReturned
    /\ processes = 2 /\ tasks_per_job = 2 /\ render = "identity"
    /\ updates = <<1, 3, 2>>

\* C2: under fair scheduling every started parallel run returns; with the
\* empty task list the caller never waits on the result queue and update is
\* never called.
C2_Terminates ==
    /\ MulticoreRunning ~> MulticoreReturned
    /\ [](engine = "multicore" /\ pcF # "idle" /\ tasks = << >>
            => pcF # "get" /\ updates = << >>)

\* C2 witness: a run of the empty task list on 2 workers has returned.
C2_Witness ==
    /\ MulticoreReturned
    /\ tasks = << >> /\ workers = 2 /\ noneSent = 2 /\ updates = << >>

\* The number of None messages in the job queue.
NoneQueued == Cardinality({i \in DOMAIN job_queue : job_queue[i].kind = "None"})

SumNoneRecv ==
    LET sum[S \in SUBSET Workers] ==
            IF S = {} THEN 0
            ELSE LET w == CHOOSE u \in S : TRUE IN noneRecv[w] + sum[S \ {w}]
    IN  sum[Workers]

\* C3: no None is put on the job queue and run does not return before update
\* has been called for the results of all tasks; every None on the job queue
\* was put by the facade (the producer puts jobs only), and in the job queue
\* no None precedes a job.
C3_ShutdownAfterAllUpdates ==
    engine = "multicore" =>
        /\ (noneSent > 0 \/ pcF \in {"shutdown", "done"}) => Len(updates) = Len(tasks)
        /\ NoneQueued + SumNoneRecv = noneSent
        /\ \A i, j \in DOMAIN job_queue :
              (i < j /\ job_queue[i].kind = "None") => job_queue[j].kind = "None"
        /\ \A j \in DOMAIN jobs : jobs[j] # << >>

\* C3 witness: the facade is in the shutdown loop of a run of 3 tasks and a
\* None waits on the job queue.
C3_Witness ==
    /\ engine = "multicore" /\ pcF = "shutdown"
    /\ Len(tasks) = 3 /\ Len(updates) = 3
    /\ NoneQueued = 1 /\ noneSent = 1 /\ processes = 2

\* C4: None is put only once the countdown is zero; when run returns exactly
\* `processes` None have been put, one per started worker; no worker receives
\* more than one; and under fair scheduling all `processes` workers terminate,
\* each having received exactly one None.
C4_OneSentinelPerWorker ==
    /\ [](engine = "multicore" =>
            /\ noneSent > 0 => remaining = 0
            /\ noneSent <= processes
            /\ pcF = "done" => noneSent = processes /\ workers = processes
            /\ \A w \in Workers : noneRecv[w] <= 1 /\ (pcW[w] = "done" <=> noneRecv[w] = 1))
    /\ MulticoreRunning ~>
          (\A w \in 1..processes : pcW[w] = "done" /\ noneRecv[w] = 1)

\* C4 witness: after a run of 3 tasks both workers have terminated and the
\* job queue holds nothing.
C4_Witness ==
    /\ MulticoreReturned
    /\ Len(tasks) = 3 /\ processes = 2
    /\ \A w \in 1..2 : pcW[w] = "done" /\ noneRecv[w] = 1
    /\ job_queue = << >>

\* ceil(n / k) for k >= 1.
CeilDiv(n, k) == (n + k - 1) \div k

\* C5: every job put on the job queue holds between 1 and tasks_per_job
\* tasks, every job but the last one put holds exactly tasks_per_job tasks,
\* and when the producer has finished it has put exactly
\* ceil(T / tasks_per_job) jobs (none for T = 0).
C5_JobBatching ==
    engine = "multicore" =>
        /\ \A j \in DOMAIN jobs : Len(jobs[j]) >= 1 /\ Len(jobs[j]) <= tasks_per_job
        /\ \A j \in DOMAIN jobs : j < Len(jobs) => Len(jobs[j]) = tasks_per_job
        /\ pcP = "done" => Len(jobs) = CeilDiv(Len(tasks), tasks_per_job)

\* C5 witness: the producer has finished 3 tasks in jobs of 2: a full job and
\* a last job of one task.
C5_Witness ==
    /\ engine = "multicore" /\ pcP = "done"
    /\ Len(tasks) = 3 /\ tasks_per_job = 2
    /\ Len(jobs) = 2 /\ Len(jobs[1]) = 2 /\ Len(jobs[2]) = 1

\* C6: when a parallel run has returned, the multiset of results passed to
\* update equals the multiset the serial strategy passes to update for the
\* same task list and render.
C6_SameMultisetAsSerial ==
    MulticoreReturned =>
        SeqToBag(updates) = SeqToBag(serial_updates(tasks, render))

\* C6 witness: a returned parallel run with a non-injective render whose
\* delivery order differs from the serial one (<<1, 1, 0>>).
C6_Witness ==
    /\ MulticoreReturned
    /\ render = "square" /\ Len(tasks) = 3
    /\ updates = <<0, 1, 1>>

\* C7: the serial strategy renders the tasks in submission order and passes
\* each result to update before the next render: at every moment the results
\* passed to update are render of the first tasks in order, the renders done
\* are exactly those of the first `index` tasks, at most one result is
\* pending, and on return the update sequence is render applied element by
\* element to the whole list (the list itself for the identity).
C7_SerialInOrder ==
    (engine = "serial" /\ pcF # "idle") =>
        /\ Len(updates) = index - (IF pcF = "serial_update" THEN 1 ELSE 0)
        /\ updates = [i \in 1..Len(updates) |-> render_call(render, tasks[i])]
        /\ \A t \in 1..MaxTasks : renderCount[t] = (IF t <= index THEN 1 ELSE 0)
        /\ pcF = "serial_update" => result = << render_call(render, tasks[index]) >>
        /\ pcF = "done" => Len(updates) = Len(tasks)
        /\ (pcF = "done" /\ render = "identity") => updates = tasks

\* C7 witness: a serial run of 3 tasks has returned with the results in
\* submission order.
C7_Witness ==
    /\ SerialReturned
    /\ render = "square" /\ Len(tasks) = 3
    /\ updates = <<1, 1, 0>>

\* An integer argument that is zero or negative.
NonPositive(value) == value.kind = "int" /\ value.val <= 0

\* C8: a tasks_per_job of 0 or a negative integer, given to the constructor
\* or assigned later, raises the invalid-configuration error (ValueError) at
\* that call; the stored tasks_per_job of an engine is always >= 1; and a
\* constructor without tasks_per_job stores 1.
C8_TasksPerJobRejected ==
    /\ (lastCall.op = "init" /\ NonPositive(lastCall.k)) => lastError = "ValueError"
    /\ (lastCall.op = "set_tasks_per_job" /\ NonPositive(lastCall.k)) =>
           lastError = "ValueError"
    /\ engine = "multicore" => tasks_per_job >= 1
    /\ (lastCall.op = "init" /\ lastCall.k = NoneV /\ lastError = "none") =>
           tasks_per_job = 1

\* C9: a processes of 0 or a negative integer raises ValueError at the call:
\* the constructor then yields no engine, an assignment leaves the stored
\* value as it was before; None stores cpu_count(); the stored processes of
\* an engine is always a positive integer.
C9_ProcessesValidated ==
    /\ engine = "multicore" => processes \in Nat /\ processes >= 1
    /\ (lastCall.op = "init" /\ NonPositive(lastCall.p)) =>
           lastError = "ValueError" /\ engine = "none" /\ processes = Unset
    /\ (lastCall.op = "set_processes" /\ NonPositive(lastCall.p)) =>
           lastError = "ValueError" /\ processes = lastCall.before_p
    /\ (lastCall.op = "set_processes" /\ lastCall.p = NoneV) =>
           lastError = "none" /\ processes = cpu_count
    /\ (lastCall.op = "init" /\ lastCall.p = NoneV /\ lastError = "none") =>
           processes = cpu_count

\* C9 witness: assigning 0 to the processes of an engine configured with one
\* process has raised ValueError and the engine still has one process.
C9_Witness ==
    /\ engine = "multicore"
    /\ lastCall.op = "set_processes" /\ lastCall.p = IntV(0)
    /\ lastError = "ValueError"
    /\ lastCall.before_p = 1 /\ processes = 1 /\ cpu_count # 1

\* The processes value an accepted None or integer argument resolves to.
Resolved(value) == IF value.kind = "None" THEN cpu_count ELSE value.val

\* C10: worker_count() is 1 for the serial engine; for the multicore engine
\* it is the value the last successful assignment of processes resolved to
\* (an assignment that raised changes nothing), and a run starts exactly
\* that many workers.
C10_WorkerCount ==
    /\ engine = "serial" => worker_count = 1
    /\ (engine = "multicore" /\ lastCall.op \in {"init", "set_processes"}
          /\ lastCall.p.kind # "float" /\ lastError = "none") =>
           worker_count = Resolved(lastCall.p)
    /\ (engine = "multicore" /\ lastCall.op \in {"set_processes", "set_tasks_per_job"}
          /\ lastError # "none") => worker_count = lastCall.before_p
    /\ (engine = "multicore" /\ lastCall.op = "run") => worker_count = lastCall.before_p
    /\ (engine = "multicore" /\ pcF \notin {"idle", "start_workers"}) =>
           /\ workers = worker_count
           /\ {w \in Workers : pcW[w] # "none"} = 1..worker_count

\* C10 witness: an engine configured with one process on a machine with more
\* cores has started its workers: one worker runs, worker_count() is 1.
C10_Witness ==
    /\ engine = "multicore" /\ pcF = "while"
    /\ worker_count = 1 /\ cpu_count # 1
    /\ workers = 1 /\ pcW[1] # "none" /\ pcW[2] = "none"

\* C11: in a parallel run every call of update is a step of the caller's
\* thread alone: it happens at the update statement of run's loop, passes
\* the next result of the batch the caller received, moves no worker and not
\* the producer, and one step makes one call (the caller is one sequential
\* thread, so two calls never overlap).
C11_UpdateOnlyByCaller ==
    [][(engine = "multicore" /\ pcF # "idle" /\ updates' # updates) =>
          /\ pcF = "update"
          /\ results # << >>
          /\ updates' = Append(updates, Head(results))
          /\ UNCHANGED <<workerVars, producerVars, queueVars>>]_vars

\* C11 witness: the caller has passed a result to update and is inside a
\* batch while a worker is rendering another job.
C11_Witness ==
    /\ engine = "multicore" /\ pcF = "update"
    /\ Len(updates) = 1 /\ Len(results) = 1
    /\ \E w \in Workers : pcW[w] = "render" /\ wjob[w] # << >>

Crashed(w) == pcW[w] = "crashed"

\* C12: once a worker has faulted between receiving a job and putting its
\* results, the tasks of that job it had not rendered are rendered by nobody
\* and its results reach nobody: the countdown stays above zero, no None is
\* ever put, run never reaches its shutdown loop or returns, no worker ever
\* terminates, and when no process can take a step any more the caller is
\* blocked on result_queue.get and every other worker on job_queue.get.
C12_WorkerFaultHangsRun ==
    (engine = "multicore" /\ \E w \in Workers : Crashed(w)) =>
        /\ pcF \notin {"shutdown", "done"}
        /\ noneSent = 0 /\ NoneQueued = 0
        /\ pcF \in {"while", "get", "update"} => remaining > 0
        /\ \A w \in Workers : pcW[w] # "done"
        /\ \A w \in Workers : Crashed(w) =>
              /\ \A i \in DOMAIN wjob[w] : renderCount[wjob[w][i]] = 0
              /\ Len(updates) + Len(results) + Len(wjob[w]) + Len(wresults[w])
                    <= Len(tasks)
        /\ ~ENABLED RunStep =>
              /\ pcF = "get"
              /\ result_queue = << >>
              /\ \A w \in 1..processes : pcW[w] \in {"get", "crashed"}
              /\ (\E w \in 1..processes : pcW[w] = "get") => job_queue = << >>

\* C12 witness: of 2 workers one has faulted in a job of 2 tasks; the third
\* task was rendered by the other worker and passed to update, and now the
\* caller and the other worker are blocked on empty queues.
C12_Witness ==
    /\ engine = "multicore" /\ processes = 2 /\ Len(tasks) = 3
    /\ \E w \in Workers : Crashed(w) /\ Len(wjob[w]) + Len(wresults[w]) = 2
    /\ \E w \in Workers : pcW[w] = "get"
    /\ Len(updates) = 1 /\ remaining = 2
    /\ ~ENABLED RunStep

\* C13: the caller's task sequence is never changed by a parallel run, so the
\* countdown is set to the original number of tasks whatever the producer has
\* popped by then; the producer's container is changed only by the producer's
\* own pop, a step that touches nothing of the caller or of the workers.
C13_CountIsOriginalTotal ==
    [][engine = "multicore" =>
          /\ pcF # "idle" => tasks' = tasks /\ tasks = TaskList(Len(tasks))
          /\ (pcF = "start_workers" /\ pcF' = "while") =>
                remaining' = Len(tasks)
          /\ (pcF # "idle" /\ ptasks' # ptasks) =>
                /\ pcP = "for" /\ pcP' = "for"
                /\ ptasks' = SubSeq(ptasks, 1, Len(ptasks) - 1)
                /\ UNCHANGED <<facadeVars, workerVars, queueVars>>]_vars

\* C13 witness: the countdown has just been set to 3, the original number of
\* tasks, while the producer's own container is already empty.
C13_Witness ==
    /\ engine = "multicore" /\ pcF = "while"
    /\ tasks = <<1, 2, 3>> /\ remaining = 3 /\ updates = << >>
    /\ ptasks = << >>

\* The result batch of a job: render applied to its tasks, in order.
RenderMap(j) == [i \in 1..Len(j) |-> render_call(render, j[i])]

\* A worker is at work on job j: the results `res` it has collected are
\* render of the job's first tasks and the tasks `rest` it still holds are
\* the others.
HoldsJob(j, res, rest) ==
    /\ Len(j) = Len(res) + Len(rest)
    /\ rest = SubSeq(j, Len(res) + 1, Len(j))
    /\ res = SubSeq(RenderMap(j), 1, Len(res))

\* The number of elements in a sequence of sequences: the tasks of a list
\* of jobs, the results of a list of batches.
RECURSIVE TotalLen(_)
TotalLen(ss) == IF ss = << >> THEN 0 ELSE Len(Head(ss)) + TotalLen(Tail(ss))

\* The tasks of the jobs waiting on the job queue.
RECURSIVE QueuedTasks(_)
QueuedTasks(q) ==
    IF q = << >> THEN 0
    ELSE (IF Head(q).kind = "job" THEN Len(Head(q).job) ELSE 0) + QueuedTasks(Tail(q))

\* The tasks of the jobs held by the workers 1..n that are at position pc:
\* those already rendered and those still to render.
RECURSIVE TasksHeld(_, _)
TasksHeld(n, pc) ==
    IF n = 0 THEN 0
    ELSE (IF pcW[n] = pc THEN Len(wresults[n]) + Len(wjob[n]) ELSE 0)
         + TasksHeld(n - 1, pc)

\* The tasks of the jobs the workers have received from the job queue, and
\* the results that have left the workers in a message.
Received == TotalLen(jobs) - QueuedTasks(job_queue)
Delivered == TotalLen(result_queue) + Len(results) + Len(updates)

\* Every message on the result queue is the whole result batch of one job
\* the producer put: same length, i-th element render of the i-th task.
MessagesAreBatches ==
    \A m \in DOMAIN result_queue :
        \E j \in DOMAIN jobs : result_queue[m] = RenderMap(jobs[j])

\* C14 as stated: every message is the whole batch of one job, and a worker
\* puts exactly one message per job received: every job a worker has
\* received is either still with a worker working on it or has had its
\* message put, so that the results put and the tasks in work make up the
\* tasks received.
C14_OneMessagePerJobReceived ==
    (engine = "multicore" /\ pcF # "idle") =>
        /\ MessagesAreBatches
        /\ Received = Delivered + TasksHeld(MaxProcesses, "render")

\* C14: every message on the result queue is the whole result batch of one
\* job the producer put (same length, i-th element render of the i-th task);
\* a worker working on a job has collected the results of a prefix of that
\* job; a worker leaves a job either by putting its collected results, once
\* it has rendered every task, or by a fault that ends it, and then it puts
\* nothing for that job; the result queue grows only by a put of a whole
\* batch.  So a worker puts at most one message per job received, exactly
\* one unless a fault ends it while it holds the job, never a part of a job
\* or a mix of two: the tasks received are the results put, the tasks in
\* work and the tasks of the jobs lost with a faulted worker.
C14_WholeBatches ==
    [][(engine = "multicore" /\ pcF # "idle") =>
          /\ MessagesAreBatches'
          /\ \A w \in Workers : pcW'[w] = "render" =>
                \E j \in DOMAIN jobs' : HoldsJob(jobs'[j], wresults'[w], wjob'[w])
          /\ \A w \in Workers : (pcW[w] = "get" /\ pcW'[w] = "render") =>
                /\ job_queue # << >> /\ Head(job_queue).kind = "job"
                /\ wjob'[w] = Head(job_queue).job /\ wresults'[w] = << >>
          /\ \A w \in Workers : (pcW[w] = "render" /\ pcW'[w] # "render") =>
                \/ /\ pcW'[w] = "get"
                   /\ wjob[w] = << >>
                   /\ result_queue' = Append(result_queue, wresults[w])
                \/ /\ pcW'[w] = "crashed"
                   /\ result_queue' = result_queue
          /\ \A w \in Workers : pcW[w] = "crashed" => pcW'[w] = "crashed"
          /\ result_queue' # result_queue =>
                \/ pcF = "get" /\ result_queue # << >>
                      /\ result_queue' = Tail(result_queue)
                \/ \E w \in Workers :
                      /\ pcW[w] = "render" /\ pcW'[w] = "get"
                      /\ result_queue' = Append(result_queue, wresults[w])
          /\ Received' = Delivered' + TasksHeld(MaxProcesses, "render")'
                                    + TasksHeld(MaxProcesses, "crashed")'
          /\ (\A w \in Workers : pcW'[w] # "crashed") =>
                Received' = Delivered' + TasksHeld(MaxProcesses, "render")']_vars

\* C14 witness: the result queue holds the batch <<0, 1>> of the job <<3, 2>>
\* under the square render, put by one worker, while the other worker has
\* been ended by a fault holding the job <<1>>, for which nothing is put.
C14_Witness ==
    /\ engine = "multicore" /\ render = "square"
    /\ jobs = << <<3, 2>>, <<1>> >>
    /\ result_queue = << <<0, 1>> >>
    /\ \E w \in Workers : pcW[w] = "crashed" /\ wjob[w] = <<1>> /\ wresults[w] = << >>

\* The concatenation of a sequence of sequences, and the reverse of a sequence.
RECURSIVE Flatten(_)
Flatten(ss) == IF ss = << >> THEN << >> ELSE Head(ss) \o Flatten(Tail(ss))
Reverse(s) == [i \in 1..Len(s) |-> s[Len(s) + 1 - i]]

\* The job the producer is filling and has not put yet.
JobInHand == IF pcP = "for" THEN job ELSE << >>

\* C15: the producer takes tasks from the end of its container: at every
\* moment the jobs put so far, then the job in hand, then what is left in the
\* container read backwards, are the original task list reversed; the
\* producer finishes only with an empty container, and then the jobs in the
\* order put, concatenated, are the reversed task list.
C15_PopsFromEnd ==
    (engine = "multicore" /\ pcF # "idle") =>
        /\ Flatten(jobs) \o JobInHand \o Reverse(ptasks) = Reverse(tasks)
        /\ pcP = "done" => ptasks = << >> /\ Flatten(jobs) = Reverse(tasks)
        /\ (pcP = "while" /\ ptasks = << >>) => Flatten(jobs) = Reverse(tasks)

\* C15 witness: the producer has finished 3 tasks in jobs of 2: the first job
\* holds the last two tasks, last-submitted first.
C15_Witness ==
    /\ engine = "multicore" /\ pcP = "done"
    /\ tasks = <<1, 2, 3>>
    /\ jobs = << <<3, 2>>, <<1>> >>

\* The caller has set the countdown and it is above zero.
CountingDown == pcF \in {"while", "get", "update"} /\ remaining > 0

\* C16 as stated: a worker terminates only by receiving None, so in every
\* state in which the countdown is above zero all `processes` workers are
\* alive, running a job or blocked on the job queue.
C16_AllAliveWhileCounting ==
    (engine = "multicore" /\ CountingDown) =>
        \A w \in 1..processes : pcW[w] \in {"get", "render"}

\* C16 amended: a worker ends normally only by receiving None from the job
\* queue: on an empty queue it stays blocked, and it leaves a job only to
\* receive the next one or because of a fault raised while it works on the
\* job; so while the countdown is above zero every worker that has not
\* faulted is alive, running a job or blocked on the job queue.
C16_EndsOnlyBySentinelOrFault ==
    [][(engine = "multicore" /\ pcF # "idle") =>
          /\ \A w \in Workers : (pcW[w] # "done" /\ pcW'[w] = "done") =>
                /\ pcW[w] = "get"
                /\ job_queue # << >> /\ Head(job_queue).kind = "None"
          /\ \A w \in Workers : (pcW[w] = "get" /\ job_queue = << >>) => pcW'[w] = "get"
          /\ \A w \in Workers : (pcW[w] = "render" /\ pcW'[w] # "render") =>
                pcW'[w] \in {"get", "crashed"}
          /\ \A w \in Workers : (pcW[w] # "crashed" /\ pcW'[w] = "crashed") =>
                pcW[w] = "render"
          /\ CountingDown' =>
                \A w \in 1..processes : pcW'[w] \in {"get", "render", "crashed"}]_vars

\* C16 witness: both workers were started before any job existed and are
\* blocked on the empty job queue while the caller waits for 3 results.
C16_Witness ==
    /\ engine = "multicore" /\ pcF = "get" /\ remaining = 3
    /\ processes = 2 /\ \A w \in 1..2 : pcW[w] = "get"
    /\ job_queue = << >> /\ jobs = << >>

\* u is the result batches of distinct jobs among `avail`, one whole batch
\* after the other.
RECURSIVE ConcatOfBatches(_, _)
ConcatOfBatches(u, avail) ==
    IF u = << >> THEN TRUE
    ELSE \E j \in avail :
            /\ Len(jobs[j]) <= Len(u)
            /\ SubSeq(u, 1, Len(jobs[j])) = RenderMap(jobs[j])
            /\ ConcatOfBatches(SubSeq(u, Len(jobs[j]) + 1, Len(u)), avail \ {j})

\* C17: the results passed to update, followed by the rest of the batch the
\* caller is working through, are always whole batches of distinct jobs one
\* after the other, each in the order of the tasks inside its job: the
\* results of a job are delivered consecutively and in intra-job order.
C17_JobResultsConsecutive ==
    (engine = "multicore" /\ pcF # "idle") =>
        ConcatOfBatches(updates \o results, DOMAIN jobs)

\* C17 witness: with the identity render the caller is between the two
\* results of the job <<3, 2>>, after the job <<1>> was delivered first.
C17_Witness ==
    /\ engine = "multicore" /\ render = "identity" /\ pcF = "update"
    /\ jobs = << <<3, 2>>, <<1>> >>
    /\ updates = <<1, 3>> /\ results = <<2>>

\* The caller has executed `remaining = len(tasks)`.
Counted == pcF \in {"while", "get", "update", "shutdown", "done"}

\* C18: once set, the countdown equals the number of tasks minus the number
\* of update calls made and is never negative; the batch in hand and the
\* batches waiting on the result queue together never hold more results than
\* the countdown still expects, so the countdown reaches zero exactly at the
\* end of a batch and the loop is left with the countdown at zero.
C18_CountdownExact ==
    (engine = "multicore" /\ Counted) =>
        /\ remaining = Len(tasks) - Len(updates)
        /\ remaining >= 0
        /\ Len(results) + TotalLen(result_queue) <= remaining
        /\ pcF = "update" => results # << >>
        /\ pcF \in {"shutdown", "done"} => remaining = 0 /\ results = << >>

\* C18 witness: the last batch, of 2 results, has been received when the
\* countdown is 2.
C18_Witness ==
    /\ engine = "multicore" /\ pcF = "update"
    /\ Len(tasks) = 3 /\ Len(updates) = 1
    /\ remaining = 2 /\ Len(results) = 2

\* C19: when run has returned the producer's container is empty, the job
\* queue holds no job but exactly one None for each worker that has not yet
\* terminated, the result queue is empty, the caller holds no result and no
\* worker holds a job; so once all workers have terminated both queues are
\* empty.
C19_NothingLeftAtReturn ==
    MulticoreReturned =>
        /\ ptasks = << >> /\ pcP \in {"while", "done"}
        /\ \A i \in DOMAIN job_queue : job_queue[i].kind = "None"
        /\ Len(job_queue) = Cardinality({w \in 1..processes : pcW[w] # "done"})
        /\ result_queue = << >> /\ results = << >>
        /\ \A w \in 1..processes : pcW[w] \in {"get", "done"}
        /\ (\A w \in 1..processes : pcW[w] = "done") => job_queue = << >>

\* C19 witness: run has returned from 3 tasks while the producer has not yet
\* left its loop, one worker has terminated and the other has its None
\* waiting on the job queue.
C19_Witness ==
    /\ MulticoreReturned /\ Len(tasks) = 3 /\ processes = 2
    /\ pcP = "while"
    /\ pcW[1] = "done" /\ pcW[2] = "get"
    /\ job_queue = <<NoneMsg>>

\* C20: a run on an engine that has run before is independent of the runs
\* before it.  The processes left from the preceding run work on their own
\* queues: its job queue holds nothing but one None for each of its workers
\* still alive, and none of them takes a job or puts a result.  In the new
\* run every message on the job queue is a job its own producer put or a None
\* its own caller put (no worker is shut down by a None of an earlier run),
\* every batch on the result queue is the batch of one of its own jobs, and
\* when it returns every one of its tasks has been rendered exactly once and
\* update called exactly once per result.
C20_RunsIndependent ==
    engine = "multicore" =>
        /\ \A i \in DOMAIN prev.job_queue : prev.job_queue[i].kind = "None"
        /\ Len(prev.job_queue) = Cardinality({w \in Workers : prev.pcW[w] = "get"})
        /\ prev.result_queue = << >>
        /\ \A w \in Workers : prev.pcW[w] \in {"none", "get", "done"}
        /\ prev.pcP \in {"none", "while", "done"}
        /\ NoneQueued + SumNoneRecv = noneSent
        /\ noneSent > 0 => Len(updates) = Len(tasks)
        /\ \A i \in DOMAIN job_queue : job_queue[i].kind = "job" =>
              \E j \in DOMAIN jobs : jobs[j] = job_queue[i].job
        /\ \A m \in DOMAIN result_queue :
              \E j \in DOMAIN jobs : result_queue[m] = RenderMap(jobs[j])
        /\ \A t \in 1..MaxTasks : renderCount[t] <= 1
        /\ pcF = "done" =>
              /\ \A t \in 1..Len(tasks) : renderCount[t] = 1
              /\ Len(updates) = Len(tasks)
              /\ SeqToBag(updates) = Produced

\* C20 witness: a later run of 3 tasks has returned while a worker of the
\* run before it is still blocked with its None waiting on the old job queue.
C20_Witness ==
    /\ MulticoreReturned /\ Len(tasks) = 3 /\ Len(updates) = 3
    /\ \E w \in Workers : prev.pcW[w] = "get"
    /\ prev.job_queue # << >>

====
